---- MODULE Spec2Model ----
(***************************************************************************)
(* A model of src/app.py: the text chunker, the lazily constructed         *)
(* summarizer, the per-source search adapters, the rendering session of    *)
(* the Geo adapter, the "search all" orchestrator and the /search          *)
(* endpoint with its persistence loop.                                     *)
(*                                                                         *)
(* Strings are sequences of one-character strings.  None is the Python     *)
(* None.                                                                   *)
(***************************************************************************)
EXTENDS Integers, Sequences, FiniteSets, TLC

\* Python None: the empty tuple, so that it compares with every handle <<n>>.
None == <<>>

(***************************************************************************)
(* Bounds of the chunker inputs.                                           *)
(***************************************************************************)
MaxLen == 9
MaxChars == 4

Chars == {"a", ".", " "}

(***************************************************************************)
(* String primitives of Python used by the program.                        *)
(***************************************************************************)
IsSpace(c) == c \in {" ", "\n", "\t"}

Rep(c, n) == [i \in 1..n |-> c]

RECURSIVE LastNonSpace(_, _)
LastNonSpace(s, i) ==
    IF i = 0 THEN 0
    ELSE IF ~IsSpace(s[i]) THEN i
    ELSE LastNonSpace(s, i - 1)

RECURSIVE FirstNonSpace(_, _)
FirstNonSpace(s, i) ==
    IF i > Len(s) THEN i
    ELSE IF ~IsSpace(s[i]) THEN i
    ELSE FirstNonSpace(s, i + 1)

\* str.strip(): drop leading and trailing whitespace.
strip(s) == SubSeq(s, FirstNonSpace(s, 1), LastNonSpace(s, Len(s)))

\* " ".join(text.split()): words separated by single spaces, no leading or
\* trailing whitespace.
normalize(s) ==
    LET n == Len(s)
        last == LastNonSpace(s, n)
        tagged == [i \in 1..n |-> <<i, s[i]>>]
        Keep(p) == \/ ~IsSpace(p[2])
                   \/ /\ p[1] > 1
                      /\ p[1] < last
                      /\ ~IsSpace(s[p[1] - 1])
        kept == SelectSeq(tagged, Keep)
    IN  [i \in 1..Len(kept) |-> IF IsSpace(kept[i][2]) THEN " " ELSE kept[i][2]]

\* The positions where the delimiter ". " starts.
DelimAt(s) == {i \in 1..(Len(s) - 1) : s[i] = "." /\ s[i + 1] = " "}

SetMin(S) == CHOOSE m \in S : \A x \in S : m <= x

RECURSIVE SplitFrom(_, _, _)
SplitFrom(s, start, D) ==
    LET rest == {d \in D : d >= start}
    IN  IF rest = {} THEN <<SubSeq(s, start, Len(s))>>
        ELSE LET d == SetMin(rest)
             IN  <<SubSeq(s, start, d - 1)>> \o SplitFrom(s, d + 2, D)

\* text.split(". ")
split_sentences(s) == SplitFrom(s, 1, DelimAt(s))

RECURSIVE join(_, _)
\* sep.join(parts)
join(sep, parts) ==
    IF parts = <<>> THEN <<>>
    ELSE IF Len(parts) = 1 THEN parts[1]
    ELSE parts[1] \o sep \o join(sep, Tail(parts))

DotSpace == <<".", " ">>

\* s[:n]
prefix(s, n) == SubSeq(s, 1, IF Len(s) < n THEN Len(s) ELSE n)

(***************************************************************************)
(* _chunk_text                                                             *)
(***************************************************************************)
\* The overflow test of the loop, with the separators left out of the count.
fits_mutant(current, sentence, max_chars) ==
    Len(join(<<>>, current \o <<sentence>>)) <= max_chars

\* len(candidate) <= max_chars, candidate = ". ".join(current + [sentence]).strip()
fits(current, sentence, max_chars) ==
    Len(strip(join(DotSpace, current \o <<sentence>>))) <= max_chars

RECURSIVE chunk_loop(_, _, _, _)
\* The for loop over text.split(". ") and the final flush.
chunk_loop(sentences, current, chunks, max_chars) ==
    IF sentences = <<>>
    THEN IF current # <<>>
         THEN Append(chunks, strip(join(DotSpace, current)))
         ELSE chunks
    ELSE LET sentence == strip(Head(sentences))
         IN  IF sentence = <<>>
             THEN chunk_loop(Tail(sentences), current, chunks, max_chars)
             ELSE IF fits(current, sentence, max_chars)
             THEN chunk_loop(Tail(sentences), Append(current, sentence),
                             chunks, max_chars)
             ELSE chunk_loop(Tail(sentences), <<sentence>>,
                             IF current # <<>>
                             THEN Append(chunks, strip(join(DotSpace, current)))
                             ELSE chunks,
                             max_chars)

\* The chunker with the flush after the loop left out.
chunk_text_noflush(text, max_chars) ==
    LET t == normalize(text)
        r == chunk_loop(split_sentences(t), <<>>, <<>>, max_chars)
    IN  IF Len(t) <= max_chars THEN <<t>>
        ELSE SubSeq(r, 1, Len(r) - 1)

chunk_text(text, max_chars) ==
    LET t == normalize(text)
    IN  IF Len(t) <= max_chars THEN <<t>>
        ELSE chunk_loop(split_sentences(t), <<>>, <<>>, max_chars)

\* The non-empty stripped pieces of the normalized text between ". ".
SentencesOf(text) ==
    LET parts == split_sentences(normalize(text))
    IN  {strip(parts[i]) : i \in DOMAIN parts} \ {<<>>}

VARIABLES
    ck_text,        \* _chunk_text: argument text
    ck_max,         \* _chunk_text: argument max_chars
    ck_chunks,      \* _chunk_text: the returned list
    ck_pc,          \* "call" before the call, "done" after it
    summarizer,     \* the global _summarizer: None or the handle <<n>>
    ctor_calls,     \* number of calls of pipeline(...) so far
    ctor_fails,     \* number of those that raised
    summarizer_lock,\* _summarizer_lock: None or the thread that holds it
    lz_pc,          \* get_summarizer: where each calling thread is
    lz_ret,         \* get_summarizer: what each thread's last call returned
    lz_calls,       \* get_summarizer: calls each thread has begun
    st_pc,          \* summarize_text: "call", "chunk", "final", "done"
    st_arg,         \* summarize_text: the argument
    st_text,        \* summarize_text: the local text
    st_chunks,      \* summarize_text: chunks
    st_partial,     \* summarize_text: partial_summaries
    st_combined,    \* summarize_text: combined
    st_result,      \* summarize_text: what the call produced
    engine_log,     \* the calls of the engine: <<input, "ok" or "raise">>
    chrome_driver_path, \* the global CHROME_DRIVER_PATH: None or <<tier>>
    drv_launched,   \* browser sessions launched by webdriver.Chrome(...)
    drv_quits,      \* calls of driver.quit()
    store,          \* headlinesData: the urls that have a row
    db_log,         \* the urls of the INSERT OR REPLACE statements executed
    rq_pc,          \* search_news: "idle", "search", "save", "done"
    rq_query,       \* search_news: query (stripped)
    rq_source,      \* search_news: source (lowercased)
    rq_status,      \* search_news: HTTP status of the response, 0 before it
    rq_results,     \* search_news: results
    or_pc,          \* search_all_sources: "idle", "running", "returned", "raised"
    or_invoked,     \* search_all_sources: the adapters called so far
    all_results,    \* search_all_sources: all_results
    ad_src,         \* the adapter whose search_*_news is running
    ad_pc,          \* its position: "idle", "start", "navigate", "extract",
                    \* "returned", "raised"
    ad_fetches,     \* fetch_html calls of its discovery step
    ad_links,       \* len(list(links)): the candidate urls it discovered
    ad_ok,          \* per processed candidate: did extraction give a record
    ad_headlines,   \* its list headlines
    pa_pc,          \* _process_*_article: "idle", "call", "done"
    pa_src,         \* the adapter whose _process_*_article is called
    pa_doc,         \* what the url gives: fetch and parse outcome, text lengths
    pa_ret,         \* what the call produced: "pending", "none", "raise", "record"
    pa_sum_calls,   \* calls of summarize_text made by the call
    chromedriver_lock, \* _chromedriver_lock: None or the thread that holds it
    cd_pc,          \* _init_chromedriver: where each calling thread is
    cd_ret,         \* _init_chromedriver: what each thread's last call returned
    cd_calls,       \* _init_chromedriver: calls each thread has begun
    cd_saw,         \* per thread: its current call found the path set at line 274
    cd_locked,      \* per thread: its current call has acquired the lock
    cd_tried        \* the resolution tiers tried so far, in order

ckVars == <<ck_text, ck_max, ck_chunks, ck_pc>>
engineVars == <<summarizer, ctor_calls, ctor_fails>>
lazyVars == <<summarizer_lock, lz_pc, lz_ret, lz_calls>>
sumVars == <<st_pc, st_arg, st_text, st_chunks, st_partial, st_combined, st_result,
             engine_log>>

driverVars == <<chrome_driver_path, drv_launched, drv_quits>>
dbVars == <<store, db_log>>
reqVars == <<rq_pc, rq_query, rq_source, rq_status, rq_results>>
orchVars == <<or_pc, or_invoked, all_results>>
adVars == <<ad_src, ad_pc, ad_fetches, ad_links, ad_ok, ad_headlines>>
searchVars == <<driverVars, dbVars, reqVars, orchVars, adVars>>

articleVars == <<pa_pc, pa_src, pa_doc, pa_ret, pa_sum_calls>>
chromeVars == <<chromedriver_lock, cd_pc, cd_ret, cd_calls, cd_saw, cd_locked, cd_tried>>

\* The state of the calls modelled on their own: one article, one driver path.
unitVars == <<articleVars, chromeVars>>

vars == <<ckVars, engineVars, lazyVars, sumVars, searchVars, unitVars>>

(***************************************************************************)
(* The value each group of variables has while its part of the program is  *)
(* not running.                                                            *)
(***************************************************************************)
Pending == [kind |-> "pending", val |-> <<>>]
Str(s) == [kind |-> "str", val |-> s]
Raised == [kind |-> "raise", val |-> <<>>]

ChunkIdle ==
    /\ ck_text = <<>>
    /\ ck_max = 0
    /\ ck_chunks = <<>>
    /\ ck_pc = "idle"

\* line 45: _summarizer = None
EngineStart ==
    /\ summarizer = None
    /\ ctor_calls = 0
    /\ ctor_fails = 0

\* line 46: the lock is free; no thread is inside get_summarizer.
LazyIdle ==
    /\ summarizer_lock = None
    /\ lz_pc = <<>>
    /\ lz_ret = <<>>
    /\ lz_calls = <<>>

SumIdle ==
    /\ st_pc = "idle"
    /\ st_arg = <<>>
    /\ st_text = <<>>
    /\ st_chunks = <<>>
    /\ st_partial = <<>>
    /\ st_combined = <<>>
    /\ st_result = Pending
    /\ engine_log = <<>>

\* line 262: CHROME_DRIVER_PATH = None; no browser has been launched.
DriverStart ==
    /\ chrome_driver_path = None
    /\ drv_launched = 0
    /\ drv_quits = 0

ReqIdle ==
    /\ rq_pc = "idle"
    /\ rq_query = <<>>
    /\ rq_source = <<>>
    /\ rq_status = 0
    /\ rq_results = <<>>

OrchIdle ==
    /\ or_pc = "idle"
    /\ or_invoked = <<>>
    /\ all_results = <<>>

AdapterIdle ==
    /\ ad_src = <<>>
    /\ ad_pc = "idle"
    /\ ad_fetches = 0
    /\ ad_links = 0
    /\ ad_ok = <<>>
    /\ ad_headlines = <<>>

ArticleIdle ==
    /\ pa_pc = "idle"
    /\ pa_src = <<>>
    /\ pa_doc = [html |-> FALSE, parse_ok |-> FALSE, container_len |-> 0,
                 para_len |-> 0]
    /\ pa_ret = "pending"
    /\ pa_sum_calls = 0

\* line 263: the lock is free; no thread is inside _init_chromedriver.
ChromeIdle ==
    /\ chromedriver_lock = None
    /\ cd_pc = <<>>
    /\ cd_ret = <<>>
    /\ cd_calls = <<>>
    /\ cd_saw = <<>>
    /\ cd_locked = <<>>
    /\ cd_tried = <<>>

SearchIdle ==
    /\ DriverStart
    /\ store = {}
    /\ db_log = <<>>
    /\ ReqIdle
    /\ OrchIdle
    /\ AdapterIdle

(***************************************************************************)
(* _chunk_text as an operation on inputs drawn from short strings.         *)
(***************************************************************************)
ChunkTexts == UNION {[1..n -> Chars] : n \in 0..MaxLen}

InitChunk ==
    /\ ArticleIdle
    /\ ChromeIdle
    /\ ck_text \in ChunkTexts
    /\ ck_max \in 0..MaxChars
    /\ ck_chunks = <<>>
    /\ ck_pc = "call"
    /\ EngineStart
    /\ LazyIdle
    /\ SumIdle
    /\ SearchIdle

ChunkCall ==
    /\ ck_pc = "call"
    /\ ck_chunks' = chunk_text(ck_text, ck_max)
    /\ ck_pc' = "done"
    /\ UNCHANGED <<ck_text, ck_max, engineVars, lazyVars, sumVars, searchVars,
                   unitVars>>

NextChunk == ChunkCall

SpecChunk == InitChunk /\ [][NextChunk]_vars

\* C10: every chunk of _chunk_text(T, maxChars) is at most maxChars long,
\* except a chunk that is exactly one sentence of T longer than maxChars.
ChunkBounded ==
    ck_pc = "done" =>
        \A i \in DOMAIN ck_chunks :
            \/ Len(ck_chunks[i]) <= ck_max
            \/ /\ ck_chunks[i] \in SentencesOf(ck_text)
               /\ Len(ck_chunks[i]) > ck_max

\* A result of several chunks: one is a single sentence longer than the
\* bound, another stays within the bound.
ChunkBoundedWitness ==
    /\ ck_pc = "done"
    /\ ck_max > 0
    /\ \E i \in DOMAIN ck_chunks :
           /\ Len(ck_chunks[i]) > ck_max
           /\ ck_chunks[i] \in SentencesOf(ck_text)
    /\ \E i \in DOMAIN ck_chunks : Len(ck_chunks[i]) <= ck_max

\* The non-empty stripped sentences of a normalized text, in order.
SentenceSeq(t) ==
    LET parts == split_sentences(t)
        stripped == [i \in DOMAIN parts |-> strip(parts[i])]
    IN  SelectSeq(stripped, LAMBDA x : x # <<>>)

RECURSIVE SentencesByChunk(_)
\* The sentences of each chunk taken alone, chunk after chunk.
SentencesByChunk(chunks) ==
    IF chunks = <<>> THEN <<>>
    ELSE SentenceSeq(Head(chunks)) \o SentencesByChunk(Tail(chunks))

\* C11: the chunks of _chunk_text(T, maxChars) joined with ". " hold the
\* non-empty sentences of the normalized T, each exactly once and in the
\* original order, and no sentence is split across two chunks.
ChunksReconstruct ==
    ck_pc = "done" =>
        /\ SentenceSeq(join(DotSpace, ck_chunks)) = SentenceSeq(normalize(ck_text))
        /\ SentencesByChunk(ck_chunks) = SentenceSeq(normalize(ck_text))

\* A text of at least three sentences, one of them a repeat, cut into
\* several chunks of which one holds two sentences.
ChunksReconstructWitness ==
    /\ ck_pc = "done"
    /\ Len(ck_chunks) >= 2
    /\ Len(SentenceSeq(normalize(ck_text))) >= 3
    /\ \E i \in DOMAIN ck_chunks : Len(SentenceSeq(ck_chunks[i])) >= 2
    /\ \E i, j \in DOMAIN SentenceSeq(normalize(ck_text)) :
           i # j /\ SentenceSeq(normalize(ck_text))[i] = SentenceSeq(normalize(ck_text))[j]

\* C14: no chunk returned by _chunk_text is empty, whatever the text and
\* the bound, the empty, whitespace-only and delimiter-only texts included.
ChunksNonEmpty ==
    ck_pc = "done" => \A i \in DOMAIN ck_chunks : ck_chunks[i] # <<>>

(***************************************************************************)
(* summarize_text, one call, with the engine as the environment: its       *)
(* constructor and each of its calls either raise or return.               *)
(***************************************************************************)
MaxSentences == 3

ShortLimit == 400
TruncLimit == 800
ChunkMax == 700
ChunkFallback == 300
CombinedLimit == 500

SentLens == {1, 150, 399, 400, 401, 701}

\* k sentences of L letters each; pad adds whitespace around the text and
\* a line break after every sentence delimiter.
MkText(k, L, pad) ==
    LET body == join(IF pad THEN <<".", " ", "\n">> ELSE DotSpace,
                     [i \in 1..k |-> Rep("a", L)])
    IN  IF pad THEN <<" ">> \o body \o <<"\n", " ">> ELSE body

SumTexts ==
    {MkText(k, L, pad) : k \in 0..MaxSentences, L \in SentLens, pad \in BOOLEAN}

\* What a call of the engine can do: raise, or return this summary_text.
EngineOutputs == {<<>>, <<" ">> \o Rep("s", 40) \o <<"\n">>, Rep("s", 260)}
EngineOutcomes == {Raised} \cup {Str(o) : o \in EngineOutputs}

\* (text[:800] + "...") if len(text) > 800 else text
truncate(text) ==
    IF Len(text) > TruncLimit
    THEN prefix(text, TruncLimit) \o <<".", ".", ".">>
    ELSE text

\* load_models_with_caching with the except clause left out.
load_models_nocatch(ok, n) ==
    [handle |-> IF ok THEN <<n>> ELSE None, raised |-> ~ok]

\* load_models_with_caching: the n-th call of pipeline(...) returns the
\* handle <<n>> or raises; the exception is logged and _summarizer stays as
\* it was (None).
load_models_with_caching(ok, n) ==
    [handle |-> IF ok THEN <<n>> ELSE None, raised |-> FALSE]

\* The chunk's entry with the try/except of the loop body left out.
summarize_chunk_nocatch(chunk, out) ==
    IF out.kind = "raise" THEN Raised
    ELSE Str(strip(out.val))

\* lines 137-148: one chunk's entry of partial_summaries.
summarize_chunk(chunk, out) ==
    IF out.kind = "raise" THEN Str(prefix(chunk, ChunkFallback))
    ELSE Str(strip(out.val))

\* lines 157-168: the value returned by the final pass.
final_pass(combined, out) ==
    IF out.kind = "raise" THEN Str(truncate(combined))
    ELSE Str(strip(out.val))

\* lines 150-151
combine(partial) == normalize(join(<<" ">>, partial))

InitSum ==
    /\ ArticleIdle
    /\ ChromeIdle
    /\ ChunkIdle
    /\ \/ EngineStart
       \/ summarizer = <<1>> /\ ctor_calls = 1 /\ ctor_fails = 0
    /\ LazyIdle
    /\ SearchIdle
    /\ st_pc = "call"
    /\ st_arg \in SumTexts
    /\ st_text = st_arg
    /\ st_chunks = <<>>
    /\ st_partial = <<>>
    /\ st_combined = <<>>
    /\ st_result = Pending
    /\ engine_log = <<>>

\* The code after the chunk loop up to the decision about a final pass.
AfterLoop(partial) ==
    LET combined == combine(partial)
    IN  /\ st_partial' = partial
        /\ st_combined' = combined
        /\ IF Len(combined) <= CombinedLimit
           THEN st_pc' = "done" /\ st_result' = Str(combined)
           ELSE st_pc' = "final" /\ st_result' = st_result

\* The short-text test with the bound itself left out.
is_short_strict(text) == Len(text) < ShortLimit

\* line 123: len(text) <= 400
is_short(text) == Len(text) <= ShortLimit

\* lines 119-133: from the call up to the first call of the engine.
SumBegin ==
    /\ st_pc = "call"
    /\ IF st_text = <<>>
       THEN /\ st_pc' = "done"
            /\ st_result' = Str(<<>>)
            /\ UNCHANGED <<st_arg, st_text, st_chunks, st_partial,
                           st_combined, engine_log, engineVars>>
       ELSE LET text == normalize(st_text)
            IN  /\ st_text' = text
                /\ st_arg' = st_arg
                /\ IF is_short(text)
                   THEN /\ st_pc' = "done"
                        /\ st_result' = Str(text)
                        /\ UNCHANGED <<st_chunks, st_partial, st_combined,
                                       engine_log, engineVars>>
                   ELSE \E ok \in BOOLEAN :
                        LET load == load_models_with_caching(ok, ctor_calls + 1)
                        IN
                        \* get_summarizer, by a single caller
                        /\ IF summarizer = None
                           THEN /\ summarizer' = load.handle
                                /\ ctor_calls' = ctor_calls + 1
                                /\ ctor_fails' = ctor_fails + (IF ok THEN 0 ELSE 1)
                           ELSE /\ ok
                                /\ UNCHANGED engineVars
                        /\ engine_log' = engine_log
                        /\ IF summarizer = None /\ load.raised
                           THEN /\ st_pc' = "done"
                                /\ st_result' = Raised
                                /\ UNCHANGED <<st_chunks, st_partial, st_combined>>
                           ELSE IF summarizer' = None
                           THEN /\ st_pc' = "done"
                                /\ st_result' = Str(truncate(text))
                                /\ UNCHANGED <<st_chunks, st_partial, st_combined>>
                           ELSE LET chunks == chunk_text(text, ChunkMax)
                                IN  /\ st_chunks' = chunks
                                    /\ IF chunks = <<>>
                                       THEN AfterLoop(<<>>)
                                       ELSE /\ st_pc' = "chunk"
                                            /\ UNCHANGED <<st_partial, st_combined,
                                                           st_result>>

\* lines 136-154: one iteration of the chunk loop; the last one goes on to
\* combine the partial summaries.
SumChunk ==
    /\ st_pc = "chunk"
    /\ \E out \in EngineOutcomes :
       LET chunk == st_chunks[Len(st_partial) + 1]
           entry == summarize_chunk(chunk, out)
       IN  /\ engine_log' = Append(engine_log, <<chunk, out.kind>>)
           /\ IF entry.kind = "raise"
              THEN \* line 170: the outer except
                   /\ st_pc' = "done"
                   /\ st_result' = Str(truncate(st_text))
                   /\ UNCHANGED <<st_partial, st_combined>>
              ELSE IF Len(st_partial) + 1 = Len(st_chunks)
              THEN AfterLoop(Append(st_partial, entry.val))
              ELSE /\ st_partial' = Append(st_partial, entry.val)
                   /\ UNCHANGED <<st_pc, st_combined, st_result>>
    /\ UNCHANGED <<st_arg, st_text, st_chunks, engineVars>>

\* lines 156-168: the final pass over the combined text.
SumFinal ==
    /\ st_pc = "final"
    /\ \E out \in EngineOutcomes :
       LET final == final_pass(st_combined, out)
       IN  /\ engine_log' = Append(engine_log, <<st_combined, out.kind>>)
           /\ st_result' = IF final.kind = "raise"
                           THEN Str(truncate(st_text))
                           ELSE final
    /\ st_pc' = "done"
    /\ UNCHANGED <<st_arg, st_text, st_chunks, st_partial, st_combined, engineVars>>

NextSum ==
    \/ SumBegin /\ UNCHANGED <<ckVars, unitVars, lazyVars, searchVars>>
    \/ SumChunk /\ UNCHANGED <<ckVars, unitVars, lazyVars, searchVars>>
    \/ SumFinal /\ UNCHANGED <<ckVars, unitVars, lazyVars, searchVars>>

SpecSum == InitSum /\ [][NextSum]_vars

\* C2: summarize_text never raises and always returns a string, whatever
\* the engine's constructor and the engine's calls do.
SummarizeTotal ==
    /\ st_result.kind # "raise"
    /\ st_pc = "done" <=> st_result.kind = "str"

\* A call has returned although its first chunk call and its final pass
\* both raised.
SummarizeTotalWitness ==
    /\ st_pc = "done"
    /\ st_result.kind = "str"
    /\ Len(engine_log) > Len(st_chunks)
    /\ engine_log[1][2] = "raise"
    /\ engine_log[Len(engine_log)][2] = "raise"

\* C12: for a text T whose normalized form has at most 400 characters,
\* summarize_text(T) returns exactly the normalized T, and the engine is
\* neither constructed nor invoked.
ShortReturnedAsIs ==
    [][(st_pc = "call" /\ Len(normalize(st_arg)) <= ShortLimit) =>
           /\ st_pc' = "done"
           /\ st_result' = Str(normalize(st_arg))
           /\ engine_log' = <<>>
           /\ UNCHANGED engineVars]_vars

\* A padded text of exactly 400 characters once normalized has been
\* returned normalized, with no engine constructed or called.
ShortReturnedAsIsWitness ==
    /\ st_pc = "done"
    /\ Len(normalize(st_arg)) = ShortLimit
    /\ st_arg # normalize(st_arg)
    /\ st_result = Str(normalize(st_arg))
    /\ engine_log = <<>>
    /\ summarizer = None
    /\ ctor_calls = 0

\* C15: with the engine available, an engine failure on one chunk does not
\* abort summarize_text: that chunk contributes its first 300 characters,
\* every chunk is still submitted to the engine in order, and the partial
\* summaries are combined in chunk order.
ChunkFailureContained ==
    st_chunks # <<>> =>
        /\ Len(st_partial) <= Len(st_chunks)
        /\ Len(st_partial) <= Len(engine_log)
        /\ \A i \in DOMAIN st_partial :
               /\ engine_log[i][1] = st_chunks[i]
               /\ engine_log[i][2] = "raise" =>
                      st_partial[i] = prefix(st_chunks[i], ChunkFallback)
        /\ st_pc \in {"final", "done"} =>
               /\ Len(st_partial) = Len(st_chunks)
               /\ st_combined = normalize(join(<<" ">>, st_partial))

\* Three chunks, the engine raised on the second one only: its entry is
\* its first 300 characters and the third chunk was still submitted.
ChunkFailureContainedWitness ==
    /\ st_pc \in {"final", "done"}
    /\ Len(st_chunks) = 3
    /\ Len(st_partial) = 3
    /\ engine_log[1][2] = "str"
    /\ engine_log[2][2] = "raise"
    /\ engine_log[3] = <<st_chunks[3], "str">>
    /\ Len(st_chunks[2]) > ChunkFallback
    /\ st_partial[2] = prefix(st_chunks[2], ChunkFallback)

\* C3: for every non-empty text T, summarize_text(T) is a non-empty string.
SummaryNonEmpty ==
    (st_pc = "done" /\ st_arg # <<>>) =>
        (st_result.kind = "str" /\ st_result.val # <<>>)

(***************************************************************************)
(* get_summarizer called by concurrent threads.  A step is one read or     *)
(* write of the shared state; pipeline(...) is entered in one step and     *)
(* returns or raises in a later one.                                       *)
(***************************************************************************)
NumThreads == 2
MaxCalls == 2

Threads == 1..NumThreads

Ret(h) == [kind |-> "ret", val |-> h]

\* The inner test of the double-checked locking left out.
needs_load_nocheck(s) == TRUE

\* line 78: if _summarizer is None (read while holding the lock)
needs_load(s) == s = None

InitLazy ==
    /\ ArticleIdle
    /\ ChromeIdle
    /\ ChunkIdle
    /\ EngineStart
    /\ SumIdle
    /\ SearchIdle
    /\ summarizer_lock = None
    /\ lz_pc = [t \in Threads |-> "idle"]
    /\ lz_ret = [t \in Threads |-> Pending]
    /\ lz_calls = [t \in Threads |-> 0]

\* A thread calls get_summarizer().
LzCall(t) ==
    /\ lz_pc[t] = "idle"
    /\ lz_calls[t] < MaxCalls
    /\ lz_calls' = [lz_calls EXCEPT ![t] = @ + 1]
    /\ lz_pc' = [lz_pc EXCEPT ![t] = "check1"]
    /\ lz_ret' = [lz_ret EXCEPT ![t] = Pending]
    /\ UNCHANGED <<summarizer_lock, engineVars>>

\* line 76: if _summarizer is None
LzCheck1(t) ==
    /\ lz_pc[t] = "check1"
    /\ lz_pc' = [lz_pc EXCEPT ![t] = IF summarizer = None THEN "acquire" ELSE "return"]
    /\ UNCHANGED <<summarizer_lock, lz_ret, lz_calls, engineVars>>

\* line 77: with _summarizer_lock
LzAcquire(t) ==
    /\ lz_pc[t] = "acquire"
    /\ summarizer_lock = None
    /\ summarizer_lock' = <<t>>
    /\ lz_pc' = [lz_pc EXCEPT ![t] = "check2"]
    /\ UNCHANGED <<lz_ret, lz_calls, engineVars>>

\* lines 78-79 and 60: the second test, and the entry into pipeline(...)
LzCheck2(t) ==
    /\ lz_pc[t] = "check2"
    /\ IF needs_load(summarizer)
       THEN /\ ctor_calls' = ctor_calls + 1
            /\ lz_pc' = [lz_pc EXCEPT ![t] = "loading"]
       ELSE /\ ctor_calls' = ctor_calls
            /\ lz_pc' = [lz_pc EXCEPT ![t] = "release"]
    /\ UNCHANGED <<summarizer_lock, lz_ret, lz_calls, summarizer, ctor_fails>>

\* lines 60-70: pipeline(...) returns and _summarizer is assigned, or it
\* raises and the exception is logged.
LzLoad(t) ==
    /\ lz_pc[t] = "loading"
    /\ \E ok \in BOOLEAN :
       LET load == load_models_with_caching(ok, ctor_calls)
       IN  /\ summarizer' = IF ok THEN load.handle ELSE summarizer
           /\ ctor_fails' = ctor_fails + (IF ok THEN 0 ELSE 1)
           /\ lz_pc' = [lz_pc EXCEPT ![t] = IF load.raised THEN "raise" ELSE "release"]
    /\ UNCHANGED <<summarizer_lock, lz_ret, lz_calls, ctor_calls>>

\* the end of the with block: the lock is released, also by an exception
LzRelease(t) ==
    /\ lz_pc[t] \in {"release", "raise"}
    /\ summarizer_lock' = None
    /\ IF lz_pc[t] = "raise"
       THEN /\ lz_pc' = [lz_pc EXCEPT ![t] = "idle"]
            /\ lz_ret' = [lz_ret EXCEPT ![t] = Raised]
       ELSE /\ lz_pc' = [lz_pc EXCEPT ![t] = "return"]
            /\ lz_ret' = lz_ret
    /\ UNCHANGED <<lz_calls, engineVars>>

\* line 80: return _summarizer
LzReturn(t) ==
    /\ lz_pc[t] = "return"
    /\ lz_ret' = [lz_ret EXCEPT ![t] = Ret(summarizer)]
    /\ lz_pc' = [lz_pc EXCEPT ![t] = "idle"]
    /\ UNCHANGED <<summarizer_lock, lz_calls, engineVars>>

NextLazy ==
    \E t \in Threads :
        \/ LzCall(t) /\ UNCHANGED <<ckVars, unitVars, sumVars, searchVars>>
        \/ LzCheck1(t) /\ UNCHANGED <<ckVars, unitVars, sumVars, searchVars>>
        \/ LzAcquire(t) /\ UNCHANGED <<ckVars, unitVars, sumVars, searchVars>>
        \/ LzCheck2(t) /\ UNCHANGED <<ckVars, unitVars, sumVars, searchVars>>
        \/ LzLoad(t) /\ UNCHANGED <<ckVars, unitVars, sumVars, searchVars>>
        \/ LzRelease(t) /\ UNCHANGED <<ckVars, unitVars, sumVars, searchVars>>
        \/ LzReturn(t) /\ UNCHANGED <<ckVars, unitVars, sumVars, searchVars>>

SpecLazy == InitLazy /\ [][NextLazy]_vars

\* C4: once a construction of the engine has failed, the constructor is
\* never invoked again.
CtorNotRetried == [][ctor_fails > 0 => ctor_calls' = ctor_calls]_vars

\* C5: the engine is constructed successfully at most once and only by the
\* holder of the lock, the handle never changes once it is set, and every
\* caller returns that one handle (a caller returns None only when a
\* construction has failed).
LazyOnceState ==
    /\ ctor_calls - ctor_fails <= 1
    /\ summarizer # None => ctor_calls - ctor_fails = 1
    /\ \A t \in Threads :
        /\ lz_pc[t] = "loading" => summarizer_lock = <<t>>
        /\ lz_ret[t].kind \in {"pending", "ret"}
        /\ lz_ret[t].kind = "ret" =>
             /\ lz_ret[t].val # None => lz_ret[t].val = summarizer
             /\ lz_ret[t].val = None => ctor_fails > 0

LazyOnceStep == summarizer # None => summarizer' = summarizer

LazyOnce == [](LazyOnceState) /\ [][LazyOnceStep]_vars

\* Two threads raced into get_summarizer, one constructed the engine and
\* both returned the handle.
LazyOnceWitness ==
    /\ ctor_calls = 1
    /\ ctor_fails = 0
    /\ \A t \in Threads :
        /\ lz_calls[t] = 1
        /\ lz_ret[t] = Ret(<<1>>)

(***************************************************************************)
(* The search adapters, the rendering session of the Geo adapter, the      *)
(* orchestrator search_all_sources and the endpoint search_news.  The      *)
(* network, the HTML parser, the browser and the database are the          *)
(* environment: each of their calls returns or raises.                     *)
(***************************************************************************)
MaxLinks == 11
MaxLinksRequest == 1
MaxCtorFails == 1

CandidateCap == 10
MinBody == 50

Geo == <<"g", "e", "o">>
Bbc == <<"b", "b", "c">>
Ary == <<"a", "r", "y">>
Samaa == <<"s", "a", "m", "a", "a">>
Dawn == <<"d", "a", "w", "n">>
All == <<"a", "l", "l">>

\* lines 822-840: the order in which search_all_sources calls the adapters
AdapterOrder == <<Geo, Bbc, Ary, Samaa, Dawn>>
Sources == {AdapterOrder[i] : i \in DOMAIN AdapterOrder}

UpperCase == <<"A", "B", "C", "D", "E", "G", "L", "M", "N", "O", "R", "S", "W", "Y">>
LowerCase == <<"a", "b", "c", "d", "e", "g", "l", "m", "n", "o", "r", "s", "w", "y">>

\* str.lower()
lower(s) ==
    [i \in DOMAIN s |->
        IF \E k \in DOMAIN UpperCase : UpperCase[k] = s[i]
        THEN LowerCase[CHOOSE k \in DOMAIN UpperCase : UpperCase[k] = s[i]]
        ELSE s[i]]

\* A request parameter that is absent.
Missing == <<"missing">>

\* request.args.get(name, default)
args_get(v, default) == IF v = Missing THEN default ELSE v

QueryInputs == {Missing, <<>>, <<" ">>, <<"f">>, <<" ", "f", "\n">>}
SourceInputs ==
    Sources \cup {Missing, All, <<>>, <<"G", "E", "O">>, <<"A", "l", "l">>,
                  <<"c", "n", "n">>, <<"g", "e", "o", " ">>}

Min(a, b) == IF a < b THEN a ELSE b

\* The three tiers of _init_chromedriver.
Tiers == {"local", "webdriver_manager", "chromedriver"}

\* _init_chromedriver by a single caller: the cached path, or the tier that
\* resolves.
init_chromedriver(path, tier) == IF path # None THEN path ELSE <<tier>>

\* What fetch_html and BeautifulSoup give for one article url: no document,
\* a document whose parsing raises, or a document with so many characters
\* of text in the source's content container and in all its paragraphs.
ContainerLens == {0, 49, 401}
ParaLens == {0, 49, 50}
Docs ==
    {[html |-> FALSE, parse_ok |-> FALSE, container_len |-> 0, para_len |-> 0],
     [html |-> TRUE, parse_ok |-> FALSE, container_len |-> 0, para_len |-> 0]}
    \cup [html : {TRUE}, parse_ok : {TRUE}, container_len : ContainerLens,
          para_len : ParaLens]

\* The extraction with only the test for an empty text: the length test
\* len(text) < 50 is left out.
process_article_nomin(doc) ==
    IF ~doc.html THEN [kind |-> "none", body |-> 0]
    ELSE IF ~doc.parse_ok THEN [kind |-> "raise", body |-> 0]
    ELSE LET text == IF doc.container_len > 0 THEN doc.container_len
                     ELSE doc.para_len
         IN  IF text = 0
             THEN [kind |-> "none", body |-> text]
             ELSE [kind |-> "record", body |-> text]

\* _process_*_article up to the call of summarize_text: "none", "raise",
\* or "record" with the length of the body text.
process_article(doc) ==
    IF ~doc.html THEN [kind |-> "none", body |-> 0]
    ELSE IF ~doc.parse_ok THEN [kind |-> "raise", body |-> 0]
    ELSE LET text == IF doc.container_len > 0 THEN doc.container_len
                     ELSE doc.para_len
         IN  IF text = 0 \/ text < MinBody
             THEN [kind |-> "none", body |-> text]
             ELSE [kind |-> "record", body |-> text]

Record(src, i) == [source |-> src, url |-> <<src, i>>]

\* The body of the except clause of the candidate loop left out: the loop
\* stops at the first candidate whose extraction raises.
loop_goes_on_nocatch(kind) == kind # "raise"

\* lines 529-535: try / except Exception around one candidate; the loop
\* goes on whatever the extraction did.
loop_goes_on(kind) == TRUE

\* The adapter returns headlines, or stays in its candidate loop.
AfterCandidate(n, done, goes_on) ==
    ad_pc' = IF ~goes_on THEN "raised"
             ELSE IF done >= Min(n, CandidateCap) THEN "returned"
             ELSE "extract"

\* A caller invokes search_<src>_news(query).
StartAdapter(src) ==
    /\ ad_src' = src
    /\ ad_pc' = "start"
    /\ ad_fetches' = 0
    /\ ad_links' = 0
    /\ ad_ok' = <<>>
    /\ ad_headlines' = <<>>

\* lines 512-527 (and 588-634, 695-717, 778-804): the discovery step of the
\* four adapters that fetch their search page.
Discover(maxn) ==
    /\ ad_pc = "start"
    /\ ad_src # Geo
    /\ \E primary \in BOOLEAN, fallback \in BOOLEAN, parse_ok \in BOOLEAN,
          n \in 0..maxn :
        LET html == primary \/ (ad_src = Ary /\ fallback)
        IN  /\ ad_fetches' = IF ~primary /\ ad_src = Ary THEN 2 ELSE 1
            /\ IF ~html
               THEN ad_links' = 0 /\ ad_pc' = "returned"
               ELSE IF ~parse_ok
               THEN ad_links' = 0 /\ ad_pc' = "raised"
               ELSE ad_links' = n /\ AfterCandidate(n, 0, TRUE)
    /\ UNCHANGED <<ad_src, ad_ok, ad_headlines, driverVars, engineVars>>

\* lines 420-424 with _create_driver (325-347): the driver path is
\* resolved, the browser is launched, its page-load timeout is set.
GeoCreateDriver(tiers) ==
    /\ ad_pc = "start"
    /\ ad_src = Geo
    /\ \E tier \in tiers, launched \in BOOLEAN, timeout_set \in BOOLEAN :
        /\ chrome_driver_path' = init_chromedriver(chrome_driver_path, tier)
        /\ drv_launched' = drv_launched + (IF launched THEN 1 ELSE 0)
        /\ ad_pc' = IF launched /\ timeout_set THEN "navigate" ELSE "returned"
    /\ UNCHANGED <<drv_quits, ad_src, ad_fetches, ad_links, ad_ok,
                   ad_headlines, engineVars>>

\* lines 426-454: the search page is loaded and scanned for links; the
\* finally clause calls driver.quit() and swallows its exception.
GeoNavigate(maxn) ==
    /\ ad_pc = "navigate"
    /\ \E outcome \in {"timeout", "error", "ok"}, n \in 0..maxn,
          quit \in {"ok", "raise"} :
        /\ drv_quits' = drv_quits + 1
        /\ IF outcome = "timeout"
           THEN ad_links' = 0 /\ ad_pc' = "returned"
           ELSE ad_links' = n /\ AfterCandidate(n, 0, TRUE)
    /\ UNCHANGED <<chrome_driver_path, drv_launched, ad_src, ad_fetches,
                   ad_ok, ad_headlines, engineVars>>

\* summarize_text as called by an adapter: only a body longer than 400
\* characters reaches get_summarizer, which constructs the engine when
\* there is none.
SummarizeBody(body, ok) ==
    IF body > ShortLimit /\ summarizer = None
    THEN /\ ok \/ ctor_fails < MaxCtorFails
         /\ summarizer' = load_models_with_caching(ok, ctor_calls + 1).handle
         /\ ctor_calls' = ctor_calls + 1
         /\ ctor_fails' = ctor_fails + (IF ok THEN 0 ELSE 1)
    ELSE UNCHANGED engineVars

\* lines 528-536 (456-463, 635-643, 718-726, 805-813): one iteration of
\* the loop over list(links)[:10]; after the last one the adapter returns.
Extract(docs) ==
    /\ ad_pc = "extract"
    /\ \E doc \in docs :
        LET i == Len(ad_ok) + 1
            r == process_article(doc)
        IN  /\ IF r.kind = "record"
               THEN \E ok \in BOOLEAN : SummarizeBody(r.body, ok)
               ELSE UNCHANGED engineVars
            /\ ad_ok' = Append(ad_ok, r.kind = "record")
            /\ ad_headlines' = IF r.kind = "record"
                               THEN Append(ad_headlines, Record(ad_src, i))
                               ELSE ad_headlines
            /\ AfterCandidate(ad_links, i, loop_goes_on(r.kind))
    /\ UNCHANGED <<ad_src, ad_fetches, ad_links, driverVars>>

InitAdapter ==
    /\ ArticleIdle
    /\ ChromeIdle
    /\ ChunkIdle
    /\ EngineStart
    /\ LazyIdle
    /\ SumIdle
    /\ DriverStart
    /\ store = {}
    /\ db_log = <<>>
    /\ ReqIdle
    /\ OrchIdle
    /\ ad_src \in Sources
    /\ ad_pc = "start"
    /\ ad_fetches = 0
    /\ ad_links = 0
    /\ ad_ok = <<>>
    /\ ad_headlines = <<>>

NextAdapter ==
    \/ Discover(MaxLinks) /\ UNCHANGED <<ckVars, unitVars, lazyVars, sumVars, dbVars, reqVars, orchVars>>
    \/ GeoCreateDriver(Tiers) /\ UNCHANGED <<ckVars, unitVars, lazyVars, sumVars, dbVars, reqVars, orchVars>>
    \/ GeoNavigate(MaxLinks) /\ UNCHANGED <<ckVars, unitVars, lazyVars, sumVars, dbVars, reqVars, orchVars>>
    \/ Extract(Docs) /\ UNCHANGED <<ckVars, unitVars, lazyVars, sumVars, dbVars, reqVars, orchVars>>

SpecAdapter == InitAdapter /\ [][NextAdapter]_vars

RECURSIVE Successes(_, _, _)
\* The records of the candidates 1..k whose extraction succeeded, in order.
Successes(src, ok, k) ==
    IF k = 0 THEN <<>>
    ELSE LET before == Successes(src, ok, k - 1)
         IN  IF ok[k] THEN Append(before, Record(src, k)) ELSE before

\* C9: a failed extraction of one candidate is skipped and the remaining
\* candidates are still processed: an adapter returns only after the first
\* min(n, 10) of its n candidates were processed, it never raises out of the
\* candidate loop, and its list is exactly the successful extractions.
CandidatesAllProcessed ==
    /\ ad_pc \in {"extract", "returned"} =>
        /\ Len(ad_ok) <= Min(ad_links, CandidateCap)
        /\ ad_headlines = Successes(ad_src, ad_ok, Len(ad_ok))
    /\ ad_pc = "returned" => Len(ad_ok) = Min(ad_links, CandidateCap)
    /\ ad_pc = "raised" => ad_ok = <<>>

\* An adapter found more than 10 candidates; the first extraction failed,
\* a later one too, the 10th succeeded, and the adapter returned.
CandidatesAllProcessedWitness ==
    /\ ad_pc = "returned"
    /\ ad_links > CandidateCap
    /\ Len(ad_ok) = CandidateCap
    /\ ~ad_ok[1]
    /\ ~ad_ok[5]
    /\ ad_ok[CandidateCap]
    /\ Len(ad_headlines) = CandidateCap - 2

(***************************************************************************)
(* search_news with search_all_sources and DatabaseManager.save_headline:  *)
(* one request, from its arrival to its response.                          *)
(***************************************************************************)
\* The environment of the request: the driver is found on the search path,
\* and no article body is long enough to need the summarization engine.
RequestTiers == {"chromedriver"}
RequestDocs == {d \in Docs : d.container_len <= ShortLimit}

InitSearch ==
    /\ ArticleIdle
    /\ ChromeIdle
    /\ ChunkIdle
    /\ EngineStart
    /\ LazyIdle
    /\ SumIdle
    /\ DriverStart
    /\ store \in {{}, {<<Bbc, 1>>}}
    /\ db_log = <<>>
    /\ ReqIdle
    /\ OrchIdle
    /\ AdapterIdle

\* The selectors search_news dispatches on (lines 897-908).
KnownSources == Sources \cup {All}

\* The source test taken after the dispatch instead of before it: an
\* unknown selector is served like "all".
dispatch_unchecked(source) ==
    IF source \in Sources THEN "one" ELSE "all"

\* lines 897-910: the branch search_news takes for a source selector.
dispatch(source) ==
    IF source \in Sources THEN "one"
    ELSE IF source = All THEN "all"
    ELSE "unknown"

\* lines 890-910: the request parameters are read and checked and the
\* first adapter is called.
Request ==
    /\ rq_pc = "idle"
    /\ \E q \in QueryInputs, src \in SourceInputs :
        LET query == strip(args_get(q, <<>>))
            source == lower(args_get(src, All))
        IN  /\ rq_query' = query
            /\ rq_source' = source
            /\ IF query = <<>> \/ dispatch(source) = "unknown"
               THEN /\ rq_status' = 400
                    /\ rq_pc' = "done"
                    /\ UNCHANGED <<orchVars, adVars>>
               ELSE /\ rq_status' = 0
                    /\ rq_pc' = "search"
                    /\ IF dispatch(source) = "one"
                       THEN /\ StartAdapter(source)
                            /\ UNCHANGED orchVars
                       ELSE \* search_all_sources, lines 818-824
                            /\ or_pc' = "running"
                            /\ or_invoked' = <<AdapterOrder[1]>>
                            /\ all_results' = <<>>
                            /\ StartAdapter(AdapterOrder[1])
    /\ UNCHANGED <<rq_results, dbVars, driverVars, engineVars>>

\* lines 824-843: an adapter called by search_all_sources has ended; its
\* list is appended and the next adapter is called, or all_results is
\* returned.  Nothing catches an exception of the adapter.
OrchNext ==
    /\ or_pc = "running"
    /\ ad_pc \in {"returned", "raised"}
    /\ IF ad_pc = "raised"
       THEN /\ or_pc' = "raised"
            /\ UNCHANGED <<or_invoked, all_results, adVars>>
       ELSE /\ all_results' = all_results \o ad_headlines
            /\ IF Len(or_invoked) < Len(AdapterOrder)
               THEN /\ or_pc' = "running"
                    /\ or_invoked' = Append(or_invoked,
                                            AdapterOrder[Len(or_invoked) + 1])
                    /\ StartAdapter(AdapterOrder[Len(or_invoked) + 1])
               ELSE /\ or_pc' = "returned"
                    /\ UNCHANGED <<or_invoked, adVars>>
    /\ UNCHANGED <<reqVars, dbVars, driverVars, engineVars>>

\* The call made by search_news has ended, by a return or by an exception.
SearchEnded ==
    IF or_pc = "idle" THEN ad_pc \in {"returned", "raised"}
    ELSE or_pc \in {"returned", "raised"}

SearchRaised == IF or_pc = "idle" THEN ad_pc = "raised" ELSE or_pc = "raised"

\* lines 915-926: the response.
Respond(results) ==
    /\ rq_status' = 200
    /\ rq_pc' = "done"
    /\ rq_results' = results

\* lines 896-926: search_news gets the results (or the exception) of the
\* search.
Collect ==
    /\ rq_pc = "search"
    /\ SearchEnded
    /\ IF SearchRaised
       THEN /\ rq_status' = 500
            /\ rq_pc' = "done"
            /\ rq_results' = rq_results
       ELSE LET results == IF or_pc = "idle" THEN ad_headlines ELSE all_results
            IN  IF results = <<>>
                THEN Respond(results)
                ELSE /\ rq_results' = results
                     /\ rq_pc' = "save"
                     /\ rq_status' = rq_status
    /\ UNCHANGED <<rq_query, rq_source, orchVars, adVars, dbVars, driverVars,
                   engineVars>>

\* lines 204-226: save_headline.  The connection cannot be opened (the
\* exception leaves save_headline), or INSERT OR REPLACE runs and either
\* commits or raises sqlite3.Error, which is logged.
save_headline(rows, record, db) ==
    IF db = "ok" THEN rows \cup {record.url} ELSE rows

\* lines 912-926: one iteration of the loop over results; after the last
\* one the success response is returned.
Save ==
    /\ rq_pc = "save"
    /\ \E db \in {"ok", "sqlite_error", "connect_error"} :
        LET record == rq_results[Len(db_log) + 1]
        IN  IF db = "connect_error"
            THEN /\ rq_status' = 500
                 /\ rq_pc' = "done"
                 /\ UNCHANGED <<rq_results, dbVars>>
            ELSE /\ store' = save_headline(store, record, db)
                 /\ db_log' = Append(db_log, record.url)
                 /\ IF Len(db_log) + 1 = Len(rq_results)
                    THEN Respond(rq_results)
                    ELSE UNCHANGED <<rq_status, rq_pc, rq_results>>
    /\ UNCHANGED <<rq_query, rq_source, orchVars, adVars, driverVars,
                   engineVars>>

restOfSearch == <<ckVars, unitVars, lazyVars, sumVars>>
restOfCall == <<ckVars, unitVars, lazyVars, sumVars, dbVars, reqVars, orchVars>>

NextSearch ==
    \/ Request /\ UNCHANGED restOfSearch
    \/ Discover(MaxLinksRequest) /\ UNCHANGED restOfCall
    \/ GeoCreateDriver(RequestTiers) /\ UNCHANGED restOfCall
    \/ GeoNavigate(MaxLinksRequest) /\ UNCHANGED restOfCall
    \/ Extract(RequestDocs) /\ UNCHANGED restOfCall
    \/ OrchNext /\ UNCHANGED restOfSearch
    \/ Collect /\ UNCHANGED restOfSearch
    \/ Save /\ UNCHANGED restOfSearch

SpecSearch == InitSearch /\ [][NextSearch]_vars

\* C1: in search_all_sources the failure of one adapter's search counts as
\* zero results of that source: the call does not raise, and when it has
\* ended all five adapters have been invoked.
AllAdaptersInvoked ==
    /\ or_pc # "raised"
    /\ or_pc = "returned" => or_invoked = AdapterOrder

\* C6: when search_geo_news has returned, driver.quit() has been called for
\* every browser session it launched.
SessionsTornDown ==
    (ad_src = Geo /\ ad_pc \in {"extract", "returned", "raised"}) =>
        drv_quits = drv_launched

\* C7: a request without a query or with an unknown source selector gets
\* status 400, and no adapter was invoked and no row written for it.
RequestInvalid == rq_query = <<>> \/ rq_source \notin KnownSources

InvalidRejected ==
    (rq_pc # "idle" /\ RequestInvalid) =>
        /\ rq_pc = "done"
        /\ rq_status = 400
        /\ ad_pc = "idle"
        /\ or_invoked = <<>>
        /\ db_log = <<>>
        /\ drv_launched = 0

\* A request with a query and the selector "cnn" has been answered.
InvalidRejectedWitness ==
    /\ rq_pc = "done"
    /\ rq_status = 400
    /\ rq_query # <<>>
    /\ rq_source = <<"c", "n", "n">>

\* C8: after a success response every returned record has a row in the
\* store, and one upsert was issued per record, in result order.
ResultsPersisted ==
    rq_status = 200 =>
        /\ \A i \in DOMAIN rq_results : rq_results[i].url \in store
        /\ db_log = [i \in DOMAIN rq_results |-> rq_results[i].url]

(***************************************************************************)
(* One call of _process_<source>_article(url), for each of the adapters.   *)
(* The document is what the fetch, the parser and the two text strategies  *)
(* give: the paragraphs of the source's content container, and the         *)
(* paragraphs of the fallback (article / story-detail for Geo, the whole   *)
(* document for the other four).                                           *)
(***************************************************************************)
InitArticle ==
    /\ ChunkIdle
    /\ \/ EngineStart
       \/ summarizer = <<1>> /\ ctor_calls = 1 /\ ctor_fails = 0
    /\ LazyIdle
    /\ SumIdle
    /\ SearchIdle
    /\ ChromeIdle
    /\ pa_pc = "call"
    /\ pa_src \in Sources
    /\ pa_doc \in Docs
    /\ pa_ret = "pending"
    /\ pa_sum_calls = 0

\* lines 350-413 (466-510, 539-586, 646-693, 729-776): the fetch, the
\* parse, the body text, the length test, summarize_text and the record.
ProcessArticle ==
    /\ pa_pc = "call"
    /\ LET r == process_article(pa_doc)
       IN  /\ pa_ret' = r.kind
           /\ IF r.kind = "record"
              THEN /\ \E ok \in BOOLEAN : SummarizeBody(r.body, ok)
                   /\ pa_sum_calls' = pa_sum_calls + 1
              ELSE UNCHANGED <<engineVars, pa_sum_calls>>
    /\ pa_pc' = "done"
    /\ UNCHANGED <<pa_src, pa_doc>>

NextArticle ==
    ProcessArticle /\ UNCHANGED <<ckVars, lazyVars, sumVars, searchVars, chromeVars>>

SpecArticle == InitArticle /\ [][NextArticle]_vars

\* len(text) of the body text after the container and the fallback.
BodyLen(doc) ==
    IF doc.container_len > 0 THEN doc.container_len ELSE doc.para_len

\* C13: for every adapter, when the body text got from the document after
\* the container and the fallback strategies is shorter than 50
\* characters, _process_*_article returns None: no record is built and
\* summarize_text is not called.
ShortBodySkipped ==
    [][(pa_pc = "call" /\ pa_doc.html /\ pa_doc.parse_ok
            /\ BodyLen(pa_doc) < MinBody) =>
           /\ pa_ret' = "none"
           /\ pa_sum_calls' = 0
           /\ UNCHANGED engineVars]_vars

\* A document whose container is empty and whose fallback gives 49
\* characters was skipped, with no engine although none was cached.
ShortBodySkippedWitness ==
    /\ pa_pc = "done"
    /\ pa_doc.html
    /\ pa_doc.parse_ok
    /\ pa_doc.container_len = 0
    /\ BodyLen(pa_doc) = MinBody - 1
    /\ pa_ret = "none"
    /\ pa_sum_calls = 0
    /\ summarizer = None

(***************************************************************************)
(* _init_chromedriver called by several threads. A path is written as the  *)
(* tier that gave it. os.path.exists and ChromeDriverManager().install()   *)
(* are the environment.                                                    *)
(***************************************************************************)
ResolutionOrder == <<"local", "webdriver_manager", "chromedriver">>

\* What line 294 and the lines 296-305 can give: a path ending in .exe, a
\* path resolved by the glob, no candidate (RuntimeError), an exception.
InstallOutcomes == {"exe", "resolved", "no_candidates", "raise"}

\* The test made while holding the lock left out.
needs_resolve_nocheck(path) == TRUE

\* line 278: if CHROME_DRIVER_PATH (read while holding the lock)
needs_resolve(path) == path = None

InitChrome ==
    /\ ChunkIdle
    /\ EngineStart
    /\ LazyIdle
    /\ SumIdle
    /\ SearchIdle
    /\ ArticleIdle
    /\ chromedriver_lock = None
    /\ cd_pc = [t \in Threads |-> "idle"]
    /\ cd_ret = [t \in Threads |-> Pending]
    /\ cd_calls = [t \in Threads |-> 0]
    /\ cd_saw = [t \in Threads |-> FALSE]
    /\ cd_locked = [t \in Threads |-> FALSE]
    /\ cd_tried = <<>>

\* A thread calls _init_chromedriver().
CdCall(t) ==
    /\ cd_pc[t] = "idle"
    /\ cd_calls[t] < MaxCalls
    /\ cd_calls' = [cd_calls EXCEPT ![t] = @ + 1]
    /\ cd_pc' = [cd_pc EXCEPT ![t] = "check1"]
    /\ cd_ret' = [cd_ret EXCEPT ![t] = Pending]
    /\ cd_saw' = [cd_saw EXCEPT ![t] = FALSE]
    /\ cd_locked' = [cd_locked EXCEPT ![t] = FALSE]
    /\ UNCHANGED <<chromedriver_lock, cd_tried, chrome_driver_path>>

\* line 274: if CHROME_DRIVER_PATH
CdCheck1(t) ==
    /\ cd_pc[t] = "check1"
    /\ cd_saw' = [cd_saw EXCEPT ![t] = chrome_driver_path # None]
    /\ cd_pc' = [cd_pc EXCEPT ![t] = IF chrome_driver_path # None THEN "return"
                                     ELSE "acquire"]
    /\ UNCHANGED <<chromedriver_lock, cd_ret, cd_calls, cd_locked, cd_tried,
                   chrome_driver_path>>

\* line 275: return CHROME_DRIVER_PATH
CdReturn(t) ==
    /\ cd_pc[t] = "return"
    /\ cd_ret' = [cd_ret EXCEPT ![t] = Ret(chrome_driver_path)]
    /\ cd_pc' = [cd_pc EXCEPT ![t] = "idle"]
    /\ UNCHANGED <<chromedriver_lock, cd_calls, cd_saw, cd_locked, cd_tried,
                   chrome_driver_path>>

\* line 277: with _chromedriver_lock
CdAcquire(t) ==
    /\ cd_pc[t] = "acquire"
    /\ chromedriver_lock = None
    /\ chromedriver_lock' = <<t>>
    /\ cd_locked' = [cd_locked EXCEPT ![t] = TRUE]
    /\ cd_pc' = [cd_pc EXCEPT ![t] = "check2"]
    /\ UNCHANGED <<cd_ret, cd_calls, cd_saw, cd_tried, chrome_driver_path>>

\* line 278: the second test
CdCheck2(t) ==
    /\ cd_pc[t] = "check2"
    /\ cd_pc' = [cd_pc EXCEPT ![t] = IF needs_resolve(chrome_driver_path)
                                     THEN "local" ELSE "release"]
    /\ UNCHANGED <<chromedriver_lock, cd_ret, cd_calls, cd_saw, cd_locked,
                   cd_tried, chrome_driver_path>>

\* lines 282-288: the explicit local path
CdLocal(t) ==
    /\ cd_pc[t] = "local"
    /\ cd_tried' = Append(cd_tried, "local")
    /\ \E exists \in BOOLEAN :
        IF exists
        THEN /\ chrome_driver_path' = <<"local">>
             /\ cd_pc' = [cd_pc EXCEPT ![t] = "release"]
        ELSE /\ chrome_driver_path' = chrome_driver_path
             /\ cd_pc' = [cd_pc EXCEPT ![t] = "install"]
    /\ UNCHANGED <<chromedriver_lock, cd_ret, cd_calls, cd_saw, cd_locked>>

\* lines 291-308: ChromeDriverManager().install() and the search for an
\* executable next to a path that does not end in .exe
CdInstall(t) ==
    /\ cd_pc[t] = "install"
    /\ cd_tried' = Append(cd_tried, "webdriver_manager")
    /\ \E outcome \in InstallOutcomes :
        IF outcome \in {"exe", "resolved"}
        THEN /\ chrome_driver_path' = <<"webdriver_manager">>
             /\ cd_pc' = [cd_pc EXCEPT ![t] = "release"]
        ELSE /\ chrome_driver_path' = chrome_driver_path
             /\ cd_pc' = [cd_pc EXCEPT ![t] = "fallback"]
    /\ UNCHANGED <<chromedriver_lock, cd_ret, cd_calls, cd_saw, cd_locked>>

\* lines 310-315: the except clause sets the bare name
CdFallback(t) ==
    /\ cd_pc[t] = "fallback"
    /\ cd_tried' = Append(cd_tried, "chromedriver")
    /\ chrome_driver_path' = <<"chromedriver">>
    /\ cd_pc' = [cd_pc EXCEPT ![t] = "release"]
    /\ UNCHANGED <<chromedriver_lock, cd_ret, cd_calls, cd_saw, cd_locked>>

\* lines 279, 286, 308, 315: return CHROME_DRIVER_PATH inside the with
\* block, whose exit releases the lock
CdRelease(t) ==
    /\ cd_pc[t] = "release"
    /\ cd_ret' = [cd_ret EXCEPT ![t] = Ret(chrome_driver_path)]
    /\ chromedriver_lock' = None
    /\ cd_pc' = [cd_pc EXCEPT ![t] = "idle"]
    /\ UNCHANGED <<cd_calls, cd_saw, cd_locked, cd_tried, chrome_driver_path>>

restOfChrome ==
    <<ckVars, engineVars, lazyVars, sumVars, articleVars, drv_launched,
      drv_quits, dbVars, reqVars, orchVars, adVars>>

NextChrome ==
    \E t \in Threads :
        \/ CdCall(t) /\ UNCHANGED restOfChrome
        \/ CdCheck1(t) /\ UNCHANGED restOfChrome
        \/ CdReturn(t) /\ UNCHANGED restOfChrome
        \/ CdAcquire(t) /\ UNCHANGED restOfChrome
        \/ CdCheck2(t) /\ UNCHANGED restOfChrome
        \/ CdLocal(t) /\ UNCHANGED restOfChrome
        \/ CdInstall(t) /\ UNCHANGED restOfChrome
        \/ CdFallback(t) /\ UNCHANGED restOfChrome
        \/ CdRelease(t) /\ UNCHANGED restOfChrome

SpecChrome == InitChrome /\ [][NextChrome]_vars

\* C16: under every interleaving of concurrent callers of
\* _init_chromedriver the path is resolved at most once, trying the local
\* path, then the installer, then the bare name; once set the cached path
\* never changes; every caller returns that cached value; and a caller
\* that finds the cache set on entry returns without acquiring the lock.
DriverOnceState ==
    /\ Len(cd_tried) <= Len(ResolutionOrder)
    /\ cd_tried = SubSeq(ResolutionOrder, 1, Len(cd_tried))
    /\ chrome_driver_path # None =>
           /\ cd_tried # <<>>
           /\ chrome_driver_path = <<cd_tried[Len(cd_tried)]>>
    /\ \A t \in Threads :
        /\ cd_pc[t] \in {"local", "install", "fallback"} =>
               chromedriver_lock = <<t>>
        /\ cd_ret[t].kind \in {"pending", "ret"}
        /\ cd_ret[t].kind = "ret" =>
               /\ cd_ret[t].val # None
               /\ cd_ret[t].val = chrome_driver_path
        /\ cd_saw[t] => ~cd_locked[t]

DriverOnceStep ==
    /\ chrome_driver_path # None => chrome_driver_path' = chrome_driver_path
    /\ \A t \in Threads :
           (cd_saw[t] /\ cd_calls'[t] = cd_calls[t]) =>
               chromedriver_lock' # <<t>>

DriverOnce == [](DriverOnceState) /\ [][DriverOnceStep]_vars

\* Two threads raced past the first test and both took the lock in turn;
\* the three tiers were tried once, down to the bare name, and both
\* threads returned it.
DriverOnceWitness ==
    /\ cd_tried = ResolutionOrder
    /\ chrome_driver_path = <<"chromedriver">>
    /\ \E t, u \in Threads :
           /\ t # u
           /\ cd_locked[t] /\ cd_locked[u]
           /\ cd_calls[t] = 1 /\ cd_calls[u] = 1
           /\ cd_ret[t] = Ret(chrome_driver_path)
           /\ cd_ret[u] = Ret(chrome_driver_path)

====
